---- MODULE Spec2Model ----
(***************************************************************************)
(* Model of two components of the nexosim workspace:                       *)
(*   - nexosim-util/src/observables.rs : ObservableState<S, T>             *)
(*   - nexosim/src/server/services/init_service.rs : InitService           *)
(* The two components share no state; each has its own specification       *)
(* (SpecObs, SpecInit) over the common variable tuple.                      *)
(***************************************************************************)
EXTENDS Integers, Sequences, FiniteSets, TLC

\* ------------------------------------------------------------------------
\* Bounds of the model.
\* ------------------------------------------------------------------------
\* Largest value of the state type S (S is modelled as 0..MaxVal).
MaxVal == 4
\* Largest number of set/modify/propagate calls in one behaviour.
MaxOps == 3
\* Largest number of init calls in one behaviour.
MaxCalls == 2

None == [tag |-> "None"]
Some(x) == [tag |-> "Some", val |-> x]

\* ========================================================================
\* ObservableState  (nexosim-util/src/observables.rs)
\* ========================================================================

VARIABLES
    obs_impl,   \* which Observable<T> implementation S uses
    state,      \* ObservableState::state
    out,        \* ObservableState::out, the identity of the bound Output<T>
    sent,       \* values the Output has accepted, in order
    pending,    \* the values of the sends the call in flight still awaits
    opc,        \* position of the owner: "idle" or the call in flight
    last,       \* the call in flight or, when idle, the last call made:
                \* its argument, its return value r, the number of values
                \* sent before it and the state before it
    nops,       \* number of set/modify/propagate calls made so far
    posts,      \* history: the state right after the mutation of each call
    ops         \* history: the set/modify/propagate calls made, in order

obsvars == <<obs_impl, state, out, sent, pending, opc, last, nops, posts,
             ops>>

\* The state of an InitService and of the init call in progress.
VARIABLES
    ipc,            \* position of the init call: idle, sim_gen, register,
                    \* transition, returned, unwound
    ncalls,         \* number of init calls made so far
    request,        \* the InitRequest of the call
    start_time,     \* the local start_time
    result,         \* the local reply of the guarded call: Ok or Err
    sim_init,       \* the blueprint bound by the Ok arm
    registry,       \* the registry bound by the Ok arm
    reply,          \* the InitReply returned
    bench,          \* the Option<(Simulation, EndpointRegistry)> returned
    wrapper_calls,  \* history: invocations of self.sim_gen in this call
    body_calls,     \* history: entries into the user generator in this call
    reg_calls,      \* history: register_scheduler calls in this call
    trans_calls,    \* history: sim_init.init calls in this call
    trans_arg,      \* history: the argument of sim_init.init in this call
    body,           \* history: how the user generator behaved in this call
    trans,          \* history: how sim_init.init behaved in this call
    failed,         \* history: the step of this call that failed
    history         \* history: how each init call that returned ended

initvars == <<ipc, ncalls, request, start_time, result, sim_init, registry,
              reply, bench, wrapper_calls, body_calls, reg_calls,
              trans_calls, trans_arg, body, trans, failed, history>>

vars == <<obsvars, initvars>>

\* The values of the state type S.
S == 0..MaxVal

\* S::default() for an unsigned integer state.
Default == 0

\* The Observable implementations: the blanket impl for T: Clone, and a
\* user-side projection (the low bit of the state).
ObsImpls == {"clone", "project"}

\* Observable::observe
observe(impl, s) == IF impl = "clone" THEN s ELSE s % 2

\* The outputs a container can be constructed with.
Outputs == {"out_a", "out_b"}

\* The closures handed to modify: F: FnOnce(&mut S) -> R.
\*   incr  : *s += 1; returns the old value
\*   reset : *s = 0;  returns the old value
\*   peek  : leaves *s alone; returns *s + 10
Fs == {"incr", "reset", "peek"}

\* The closure f of modify applied to the state: the state after, and r.
ApplyF(f, s) ==
    CASE f = "incr"  -> [state |-> s + 1, r |-> s]
      [] f = "reset" -> [state |-> 0,     r |-> s]
      [] f = "peek"  -> [state |-> s,     r |-> s + 10]

\* new that sends the snapshot of the default state to the output.
ObsInit_emitting ==
    /\ obs_impl \in ObsImpls
    /\ state = Default
    /\ out \in Outputs
    /\ sent = <<observe(obs_impl, Default)>>
    /\ pending = <<>>
    /\ opc = "idle"
    /\ last = [op |-> "new", arg |-> None, r |-> None, before |-> 0,
               prior |-> Default]
    /\ nops = 0
    /\ posts = <<>>
    /\ ops = <<>>

\* ObservableState::new
ObsInit ==
    /\ obs_impl \in ObsImpls
    /\ state = Default
    /\ out \in Outputs
    /\ sent = <<>>
    /\ pending = <<>>
    /\ opc = "idle"
    /\ last = [op |-> "new", arg |-> None, r |-> None, before |-> 0,
               prior |-> Default]
    /\ nops = 0
    /\ posts = <<>>
    /\ ops = <<>>

\* ObservableState::get (and Deref::deref): a shared borrow of the state.
get_value(s) == s

Get ==
    /\ opc = "idle"
    /\ last' = [op |-> "get", arg |-> None, r |-> Some(get_value(state)),
                before |-> Len(sent), prior |-> state]
    /\ UNCHANGED <<obs_impl, state, out, sent, pending, opc, nops, posts,
                   ops>>
    /\ UNCHANGED initvars

\* set that sends nothing when the value equals the current state.
set_body_dedup(impl, s, value) ==
    LET s1 == value
    IN  [state |-> s1,
         send |-> IF value = s THEN <<>> ELSE <<observe(impl, s1)>>]

\* set that evaluates the argument of send before the assignment.
set_body_send_first(impl, s, value) ==
    [state |-> value, send |-> <<observe(impl, s)>>]

\* set that sends the value and never assigns it.
set_body_no_assign(impl, s, value) ==
    [state |-> s, send |-> <<observe(impl, value)>>]

\* ObservableState::set up to its await point: the assignment, then the
\* argument of send evaluated on the new state.  The result is the state
\* and the values the call sends, in order.
set_body(impl, s, value) ==
    LET s1 == value
    IN  [state |-> s1, send |-> <<observe(impl, s1)>>]

Set(value) ==
    /\ opc = "idle"
    /\ nops < MaxOps
    /\ LET b == set_body(obs_impl, state, value)
       IN  /\ state' = b.state
           /\ pending' = b.send
           /\ posts' = Append(posts, b.state)
           /\ ops' = Append(ops, "set")
           /\ opc' = IF b.send = <<>> THEN "idle" ELSE "set"
    /\ nops' = nops + 1
    /\ last' = [op |-> "set", arg |-> Some(value), r |-> None,
                before |-> Len(sent), prior |-> state]
    /\ UNCHANGED <<obs_impl, out, sent>>
    /\ UNCHANGED initvars

\* modify that sends f's return value in place of the snapshot.
modify_body_send_r(impl, s, f) ==
    LET a == ApplyF(f, s)
    IN  [state |-> a.state, r |-> a.r, send |-> <<observe(impl, a.r)>>]

\* modify that sends nothing when f left the state as it was.
modify_body_dedup(impl, s, f) ==
    LET a == ApplyF(f, s)
    IN  [state |-> a.state, r |-> a.r,
         send |-> IF a.state = s THEN <<>> ELSE <<observe(impl, a.state)>>]

\* modify that evaluates the argument of send before f runs.
modify_body_send_first(impl, s, f) ==
    LET a == ApplyF(f, s)
    IN  [state |-> a.state, r |-> a.r, send |-> <<observe(impl, s)>>]

\* ObservableState::modify up to its await point: f runs on the state in
\* place, then the argument of send is evaluated on the mutated state.
modify_body(impl, s, f) ==
    LET a == ApplyF(f, s)
    IN  [state |-> a.state, r |-> a.r, send |-> <<observe(impl, a.state)>>]

Modify(f) ==
    /\ opc = "idle"
    /\ nops < MaxOps
    /\ f = "incr" => state < MaxVal
    /\ LET b == modify_body(obs_impl, state, f)
       IN  /\ state' = b.state
           /\ pending' = b.send
           /\ posts' = Append(posts, b.state)
           /\ ops' = Append(ops, "modify")
           /\ opc' = IF b.send = <<>> THEN "idle" ELSE "modify"
           /\ last' = [op |-> "modify", arg |-> Some(f), r |-> Some(b.r),
                       before |-> Len(sent), prior |-> state]
    /\ nops' = nops + 1
    /\ UNCHANGED <<obs_impl, out, sent>>
    /\ UNCHANGED initvars

\* propagate that sends nothing when the snapshot equals the last one sent.
propagate_body_dedup(impl, s) ==
    [state |-> s,
     send |-> IF sent # <<>> /\ sent[Len(sent)] = observe(impl, s)
              THEN <<>> ELSE <<observe(impl, s)>>]

\* ObservableState::propagate up to its await point.
propagate_body(impl, s) == [state |-> s, send |-> <<observe(impl, s)>>]

Propagate ==
    /\ opc = "idle"
    /\ nops < MaxOps
    /\ LET b == propagate_body(obs_impl, state)
       IN  /\ state' = b.state
           /\ pending' = b.send
           /\ posts' = Append(posts, b.state)
           /\ ops' = Append(ops, "propagate")
           /\ opc' = IF b.send = <<>> THEN "idle" ELSE "propagate"
    /\ nops' = nops + 1
    /\ last' = [op |-> "propagate", arg |-> None, r |-> None,
                before |-> Len(sent), prior |-> state]
    /\ UNCHANGED <<obs_impl, out, sent>>
    /\ UNCHANGED initvars

\* The call in flight returns without awaiting the send it started.
SendComplete_detached ==
    /\ opc \in {"set", "modify", "propagate"}
    /\ pending # <<>>
    /\ opc' = "idle"
    /\ UNCHANGED <<obs_impl, state, out, sent, pending, last, nops, posts,
                   ops>>
    /\ UNCHANGED initvars

\* Output::send completes: the awaited future resolves, and the call in
\* flight returns to the owner once it awaits nothing more.
SendComplete ==
    /\ opc \in {"set", "modify", "propagate"}
    /\ pending # <<>>
    /\ sent' = Append(sent, Head(pending))
    /\ pending' = Tail(pending)
    /\ opc' = IF Tail(pending) = <<>> THEN "idle" ELSE opc
    /\ UNCHANGED <<obs_impl, state, out, last, nops, posts, ops>>
    /\ UNCHANGED initvars

ObsNext ==
    \/ Get
    \/ \E value \in S : Set(value)
    \/ \E f \in Fs : Modify(f)
    \/ Propagate
    \/ SendComplete

\* ========================================================================
\* InitService  (nexosim/src/server/services/init_service.rs)
\* ========================================================================

Ok(v) == [tag |-> "Ok", val |-> v]
Err(e) == [tag |-> "Err", err |-> e]

\* Text is a sequence of characters.  The backquote character is written
\* Backtick.
Backtick == "BQ"

\* The message literal of the InvalidTime reply.
NoTimeMsg ==
    <<"s", "i", "m", "u", "l", "a", "t", "i", "o", "n", " ", "s", "t", "a",
      "r", "t", " ", "t", "i", "m", "e", " ", "n", "o", "t", " ", "p", "r",
      "o", "v", "i", "d", "e", "d">>

\* The format string of the panic message, up to its placeholder.
PanicWithMsgPrefix ==
    <<"t", "h", "e", " ", "s", "i", "m", "u", "l", "a", "t", "i", "o", "n",
      " ", "i", "n", "i", "t", "i", "a", "l", "i", "z", "e", "r", " ", "h",
      "a", "s", " ", "p", "a", "n", "i", "c", "k", "e", "d", " ", "w", "i",
      "t", "h", " ", "t", "h", "e", " ", "m", "e", "s", "s", "a", "g", "e",
      " ", Backtick>>

\* The format string of the panic message, after its placeholder.
PanicWithMsgSuffix ==
    <<Backtick>>

\* The message used when the panic payload is not text.
PanicNoMsg ==
    <<"t", "h", "e", " ", "s", "i", "m", "u", "l", "a", "t", "i", "o", "n",
      " ", "i", "n", "i", "t", "i", "a", "l", "i", "z", "e", "r", " ", "h",
      "a", "s", " ", "p", "a", "n", "i", "c", "k", "e", "d">>

\* The format string of the decode failure, up to its placeholder.
DeserPrefix ==
    <<"t", "h", "e", " ", "i", "n", "i", "t", "i", "a", "l", "i", "z", "e",
      "r", " ", "c", "o", "n", "f", "i", "g", "u", "r", "a", "t", "i", "o",
      "n", " ", "c", "o", "u", "l", "d", " ", "n", "o", "t", " ", "b", "e",
      " ", "d", "e", "s", "e", "r", "i", "a", "l", "i", "z", "e", "d", ":",
      " ">>

\* The format string of the failed first transition, up to its placeholder.
TransitionPrefix ==
    <<"t", "h", "e", " ", "s", "i", "m", "u", "l", "a", "t", "i", "o", "n",
      " ", "i", "n", "i", "t", "i", "a", "l", "i", "z", "e", "r", " ", "h",
      "a", "s", " ", "p", "a", "n", "i", "c", "k", "e", "d", ":", " ">>

\* The payload texts a generator panics with.
Texts == { <<"b", "o", "o", "m">>, <<Backtick>>, <<>> }

\* TRUE iff text m occurs in text s.
Contains(s, m) ==
    \E i \in 1..(Len(s) - Len(m) + 1) : SubSeq(s, i, i + Len(m) - 1) = m

\* --- collaborators ------------------------------------------------------

\* Nanoseconds in a second: the bound of a timestamp's nanos field.
NanosPerSec == 1000000000

\* The wire timestamps of the requests.
Timestamps == [seconds : {7}, nanos : {-1, 0, 999999999, 1000000000}]

\* timestamp_to_monotonic: None when the nanoseconds are out of range.
timestamp_to_monotonic(t) ==
    IF t.nanos >= 0 /\ t.nanos < NanosPerSec
    THEN Some([secs |-> t.seconds, subsec_nanos |-> t.nanos])
    ELSE None

\* to_error: the Error message of a reply.
to_error(code, message) == [code |-> code, message |-> message]

\* The variants of SimulationError.
SimulationErrors == {"Deadlock", "Timeout", "BadQuery"}

\* Display of a SimulationError.
DisplayError(e) ==
    CASE e = "Deadlock" -> <<"d", "e", "a", "d", "l", "o", "c", "k">>
      [] e = "Timeout"  -> <<"t", "i", "m", "e", "o", "u", "t">>
      [] e = "BadQuery" -> <<"b", "a", "d", " ", "q", "u", "e", "r", "y">>

\* The code map_simulation_error gives each variant.
ErrorCodeOf(e) ==
    CASE e = "Deadlock" -> "SimulationDeadlock"
      [] e = "Timeout"  -> "SimulationTimeout"
      [] e = "BadQuery" -> "SimulationBadQuery"

\* map_simulation_error
map_simulation_error(e) == to_error(ErrorCodeOf(e), DisplayError(e))

\* The event sources a registry can hold.
Sources == {"es1", "es2"}

\* EventSourceRegistry::register_scheduler: every event source of the
\* registry is registered with the blueprint's scheduler.
register_scheduler(event_source_registry, si) ==
    [si EXCEPT !.scheduler_sources = @ \cup event_source_registry]

\* How the first lifecycle transition can end.
TransitionOutcomes == {Ok("run")} \cup {Err(e) : e \in SimulationErrors}

\* SimInit::init: the running simulation, or the failure.
sim_init_init(si, start, o) ==
    IF o.tag = "Ok"
    THEN Ok([start_time |-> start, sources |-> si.scheduler_sources,
             cfg |-> si.cfg])
    ELSE Err(o.err)

\* --- the configuration codec -------------------------------------------

\* The bytes of the serialized configurations: the integer 1, the header of
\* a one-byte integer, the header of an empty text string.
CfgBytes == {1, 24, 96}

\* Largest length of a serialized configuration.
MaxCfgLen == 2

Cfgs == UNION {[1..n -> CfgBytes] : n \in 0..MaxCfgLen}

\* Display of a decode error.
DisplayDecodeError(e) ==
    IF e = "Io" THEN <<"e", "o", "f">> ELSE <<"t", "y", "p", "e">>

\* ciborium::from_reader for an unsigned-integer configuration type: one
\* data item is read from the front of the bytes.
from_reader(bytes) ==
    IF Len(bytes) = 0 THEN Err("Io")
    ELSE LET major == bytes[1] \div 32
             info  == bytes[1] % 32
         IN  IF major # 0 THEN Err("Semantic")
             ELSE IF info < 24 THEN Ok(info)
             ELSE IF Len(bytes) < 2 THEN Err("Io")
             ELSE Ok(bytes[2])

\* --- the generator -------------------------------------------------------

\* The payloads of a panic: a string literal, an owned string, or a value
\* of another type.
Payloads == [kind : {"str", "String", "other"}, text : Texts]

\* The ways the user-supplied generator can behave in one invocation.
Behaviours ==
    {[kind |-> "ok", es |-> es] : es \in SUBSET Sources}
    \cup {[kind |-> "err", e |-> e] : e \in SimulationErrors}
    \cup {[kind |-> "panic", payload |-> p] : p \in Payloads}

\* The user-supplied generator F applied to a typed configuration.
user_gen(b, cfg) ==
    CASE b.kind = "ok" ->
            [kind |-> "return",
             val |-> Ok([sim_init |-> [scheduler_sources |-> {}, cfg |-> cfg],
                         registry |-> [event_source_registry |-> b.es]])]
      [] b.kind = "err" -> [kind |-> "return", val |-> Err(b.e)]
      [] b.kind = "panic" -> [kind |-> "panic", payload |-> b.payload]

\* A generator that is lost once it has panicked: every later invocation
\* panics again, whatever the user generator would have done.
sim_gen_poisoned(serialized_cfg, b) ==
    LET cfg == from_reader(serialized_cfg)
    IN  IF cfg.tag = "Err"
        THEN [kind |-> "return", val |-> Err(cfg.err), entered |-> FALSE]
        ELSE LET g == user_gen(b, cfg.val)
             IN  IF g.kind = "panic"
                 THEN [kind |-> "panic", payload |-> g.payload,
                       entered |-> TRUE]
                 ELSE IF \E i \in 1..Len(history) : history[i] = "panic"
                 THEN [kind |-> "panic",
                       payload |-> [kind |-> "other", text |-> <<>>],
                       entered |-> TRUE]
                 ELSE [kind |-> "return", val |-> Ok(g.val),
                       entered |-> TRUE]

\* A closure that runs the user generator on a default configuration when
\* the bytes do not decode.
sim_gen_default_cfg(serialized_cfg, b) ==
    LET cfg == from_reader(serialized_cfg)
        g == user_gen(b, IF cfg.tag = "Err" THEN 0 ELSE cfg.val)
    IN  IF g.kind = "panic"
        THEN [kind |-> "panic", payload |-> g.payload, entered |-> TRUE]
        ELSE [kind |-> "return", val |-> Ok(g.val), entered |-> TRUE]

\* The closure InitService::new stores: decode, then the user generator.
sim_gen(serialized_cfg, b) ==
    LET cfg == from_reader(serialized_cfg)
    IN  IF cfg.tag = "Err"
        THEN [kind |-> "return", val |-> Err(cfg.err), entered |-> FALSE]
        ELSE LET g == user_gen(b, cfg.val)
             IN  IF g.kind = "panic"
                 THEN [kind |-> "panic", payload |-> g.payload,
                       entered |-> TRUE]
                 ELSE [kind |-> "return", val |-> Ok(g.val),
                       entered |-> TRUE]

\* --- InitService::init ---------------------------------------------------

\* The start time taken from the request without the conversion's check.
start_time_of_unchecked(time) ==
    IF time.tag = "None" THEN None
    ELSE Some([secs |-> time.val.seconds, subsec_nanos |-> time.val.nanos])

\* request.time.and_then(timestamp_to_monotonic)
start_time_of(time) ==
    IF time.tag = "None" THEN None ELSE timestamp_to_monotonic(time.val)

\* The call made without catch_unwind: a panic keeps unwinding.
catch_unwind_absent(call) ==
    IF call.kind = "panic"
    THEN [tag |-> "Unwind", payload |-> call.payload]
    ELSE Ok(call.val)

\* panic::catch_unwind: a panic of the call becomes Err(payload).
catch_unwind(call) ==
    IF call.kind = "panic" THEN Err(call.payload) ELSE Ok(call.val)

\* A message taken from the payload whatever its type.
panic_msg_any(payload) == Some(payload.text)

\* The downcast to a string literal alone.
panic_msg_str_only(payload) ==
    IF payload.kind = "str" THEN Some(payload.text) ELSE None

\* The downcasts of the payload.
panic_msg(payload) ==
    IF payload.kind = "str" THEN Some(payload.text)
    ELSE IF payload.kind = "String" THEN Some(payload.text)
    ELSE None

\* The message of a caught panic.
error_msg(pm) ==
    IF pm.tag = "Some"
    THEN PanicWithMsgPrefix \o pm.val \o PanicWithMsgSuffix
    ELSE PanicNoMsg

\* The map_err closure of the caught panic.
panic_to_error(payload) ==
    to_error("InitializerPanic", error_msg(panic_msg(payload)))

\* An and_then closure that reports a domain error as a panic.
flatten_result_as_panic(res) ==
    IF res.tag = "Err"
    THEN Err(to_error("InvalidMessage",
                      DeserPrefix \o DisplayDecodeError(res.err)))
    ELSE IF res.val.tag = "Err"
    THEN Err(to_error("InitializerPanic", DisplayError(res.val.err)))
    ELSE Ok(res.val.val)

\* The and_then closure: the decode error, then the domain error.
flatten_result(res) ==
    IF res.tag = "Err"
    THEN Err(to_error("InvalidMessage",
                      DeserPrefix \o DisplayDecodeError(res.err)))
    ELSE IF res.val.tag = "Err"
    THEN Err(map_simulation_error(res.val.err))
    ELSE Ok(res.val.val)

\* The guarded call of the generator and the conversion of its outcome.  A
\* panic that is not caught unwinds out of init.
guarded_call(call) ==
    LET c == catch_unwind(call)
    IN  IF c.tag = "Unwind" THEN c
        ELSE IF c.tag = "Err" THEN Err(panic_to_error(c.err))
        ELSE flatten_result(c.val)

EmptyResult == [tag |-> "Empty"]
ErrorResult(e) == [tag |-> "Error", error |-> e]
InitReply(r) == [result |-> Some(r)]

\* An Ok arm that leaves the registration out.
register_step_skipped(si, reg) == si

\* The registration of the Ok arm.
register_step(si, reg) == register_scheduler(reg.event_source_registry, si)

\* An inner match that swallows the failure of sim_init.init.
transition_reply_swallowed(res, reg) ==
    IF res.tag = "Ok"
    THEN [reply |-> EmptyResult, bench |-> Some(<<res.val, reg>>)]
    ELSE [reply |-> EmptyResult, bench |-> None]

\* An inner match that reports the failure of sim_init.init with the code
\* of the simulation-error mapping.
transition_reply_mapped(res, reg) ==
    IF res.tag = "Ok"
    THEN [reply |-> EmptyResult, bench |-> Some(<<res.val, reg>>)]
    ELSE [reply |-> ErrorResult(map_simulation_error(res.err)),
          bench |-> None]

\* The inner match of the Ok arm on the outcome of sim_init.init.
transition_reply(res, reg) ==
    IF res.tag = "Ok"
    THEN [reply |-> EmptyResult, bench |-> Some(<<res.val, reg>>)]
    ELSE [reply |-> ErrorResult(to_error("InitializerPanic",
                        TransitionPrefix \o DisplayError(res.err))),
          bench |-> None]

\* The requests.
Requests ==
    [time : {None} \cup {Some(t) : t \in Timestamps}, cfg : Cfgs]

InitInit ==
    /\ ipc = "idle"
    /\ ncalls = 0
    /\ request = None
    /\ start_time = None
    /\ result = None
    /\ sim_init = None
    /\ registry = None
    /\ reply = None
    /\ bench = None
    /\ wrapper_calls = 0
    /\ body_calls = 0
    /\ reg_calls = 0
    /\ trans_calls = 0
    /\ trans_arg = None
    /\ body = None
    /\ trans = None
    /\ failed = "none"
    /\ history = <<>>

\* init is entered: the start time is validated, and a request without a
\* usable time is answered at once.
InitBegin(req) ==
    /\ ipc \in {"idle", "returned"}
    /\ ncalls < MaxCalls
    /\ ncalls' = ncalls + 1
    /\ request' = req
    /\ result' = None
    /\ sim_init' = None
    /\ registry' = None
    /\ wrapper_calls' = 0
    /\ body_calls' = 0
    /\ reg_calls' = 0
    /\ trans_calls' = 0
    /\ trans_arg' = None
    /\ body' = None
    /\ trans' = None
    /\ bench' = None
    /\ LET st == start_time_of(req.time)
       IN  IF st.tag = "None"
           THEN /\ reply' = InitReply(ErrorResult(
                                to_error("InvalidTime", NoTimeMsg)))
                /\ start_time' = None
                /\ failed' = "time"
                /\ history' = Append(history, "time")
                /\ ipc' = "returned"
           ELSE /\ reply' = None
                /\ start_time' = st
                /\ failed' = "none"
                /\ history' = history
                /\ ipc' = "sim_gen"
    /\ UNCHANGED obsvars

\* A guarded call that invokes the generator a second time when the first
\* invocation panicked.
InitGenerate_retry(b) ==
    /\ ipc = "sim_gen"
    /\ LET call == sim_gen(request.cfg, b)
           r == guarded_call(call)
           n == IF call.kind = "panic" THEN 2 ELSE 1
       IN  /\ wrapper_calls' = wrapper_calls + n
           /\ body_calls' = body_calls + (IF call.entered THEN n ELSE 0)
           /\ body' = IF call.entered THEN Some(b) ELSE None
           /\ result' = r
           /\ IF r.tag = "Ok"
              THEN /\ sim_init' = r.val.sim_init
                   /\ registry' = r.val.registry
                   /\ ipc' = "register"
                   /\ UNCHANGED <<reply, bench, failed, history>>
              ELSE /\ reply' = InitReply(ErrorResult(r.err))
                   /\ bench' = None
                   /\ failed' = IF call.kind = "panic" THEN "panic"
                                ELSE IF call.val.tag = "Err" THEN "decode"
                                ELSE "domain"
                   /\ history' = Append(history, failed')
                   /\ ipc' = "returned"
                   /\ UNCHANGED <<sim_init, registry>>
    /\ UNCHANGED <<ncalls, request, start_time, reg_calls, trans_calls,
                   trans_arg, trans>>
    /\ UNCHANGED obsvars

\* The stored generator is invoked under catch_unwind and its outcome is
\* converted; the Err arm of the match returns the error reply.
InitGenerate(b) ==
    /\ ipc = "sim_gen"
    /\ LET call == sim_gen(request.cfg, b)
           r == guarded_call(call)
       IN  /\ wrapper_calls' = wrapper_calls + 1
           /\ body_calls' = body_calls + (IF call.entered THEN 1 ELSE 0)
           /\ body' = IF call.entered THEN Some(b) ELSE None
           /\ result' = r
           /\ IF r.tag = "Unwind"
              THEN /\ ipc' = "unwound"
                   /\ failed' = "panic"
                   /\ UNCHANGED <<sim_init, registry, reply, bench, history>>
              ELSE IF r.tag = "Ok"
              THEN /\ sim_init' = r.val.sim_init
                   /\ registry' = r.val.registry
                   /\ ipc' = "register"
                   /\ UNCHANGED <<reply, bench, failed, history>>
              ELSE /\ reply' = InitReply(ErrorResult(r.err))
                   /\ bench' = None
                   /\ failed' = IF call.kind = "panic" THEN "panic"
                                ELSE IF call.val.tag = "Err" THEN "decode"
                                ELSE "domain"
                   /\ history' = Append(history, failed')
                   /\ ipc' = "returned"
                   /\ UNCHANGED <<sim_init, registry>>
    /\ UNCHANGED <<ncalls, request, start_time, reg_calls, trans_calls,
                   trans_arg, trans>>
    /\ UNCHANGED obsvars

\* The Ok arm: the registry's event sources are registered with the
\* blueprint's scheduler.
InitRegister ==
    /\ ipc = "register"
    /\ sim_init' = register_step(sim_init, registry)
    /\ reg_calls' = reg_calls + 1
    /\ ipc' = "transition"
    /\ UNCHANGED <<ncalls, request, start_time, result, registry, reply,
                   bench, wrapper_calls, body_calls, trans_calls, trans_arg,
                   body, trans, failed, history>>
    /\ UNCHANGED obsvars

\* The Ok arm: the first lifecycle transition, and the return of init.
InitTransition(o) ==
    /\ ipc = "transition"
    /\ LET res == sim_init_init(sim_init, start_time.val, o)
           t == transition_reply(res, registry)
       IN  /\ reply' = InitReply(t.reply)
           /\ bench' = t.bench
           /\ failed' = IF res.tag = "Ok" THEN "none" ELSE "transition"
           /\ history' = Append(history, failed')
    /\ trans_calls' = trans_calls + 1
    /\ trans_arg' = start_time
    /\ trans' = Some(o)
    /\ ipc' = "returned"
    /\ UNCHANGED <<ncalls, request, start_time, result, sim_init, registry,
                   wrapper_calls, body_calls, reg_calls, body>>
    /\ UNCHANGED obsvars

InitNext ==
    \/ \E req \in Requests : InitBegin(req)
    \/ \E b \in Behaviours : InitGenerate(b)
    \/ InitRegister
    \/ \E o \in TransitionOutcomes : InitTransition(o)

\* ========================================================================
\* Specifications
\* ========================================================================

Init == ObsInit /\ InitInit

\* The owner of an ObservableState making its calls one after the other.
SpecObs == Init /\ [][ObsNext]_vars

\* A caller making init calls one after the other.
SpecInit == Init /\ [][InitNext]_vars

\* ========================================================================
\* Properties of InitService::init  (checked under SpecInit)
\* ========================================================================

\* An init call has been entered.
Called == ipc # "idle"

\* The request of the call carries a time that converts to monotonic time.
TimeValid ==
    /\ request.time.tag = "Some"
    /\ request.time.val.nanos >= 0
    /\ request.time.val.nanos < NanosPerSec

\* init has returned the Error reply with this code and no handle.
ErrorReturned(code) ==
    /\ ipc = "returned"
    /\ reply.result.tag = "Some"
    /\ reply.result.val.tag = "Error"
    /\ reply.result.val.error.code = code
    /\ bench = None

\* The user generator was entered in this call and behaved this way.
BodyWas(kind) == body.tag = "Some" /\ body.val.kind = kind

\* C1: an init call whose request has no time, or a time that does not
\* convert to monotonic time, returns Error InvalidTime and no handle,
\* whatever the cfg bytes are, and neither the stored generator nor the user
\* body is invoked in that call.
C1_InvalidTime ==
    (Called /\ ~TimeValid) =>
        /\ ErrorReturned("InvalidTime")
        /\ wrapper_calls = 0
        /\ body_calls = 0

\* A call with an out-of-range time and a decodable cfg has returned
\* InvalidTime.
C1_Witness ==
    /\ ipc = "returned"
    /\ request.time.tag = "Some"
    /\ request.time.val.nanos = NanosPerSec
    /\ from_reader(request.cfg).tag = "Ok"
    /\ ErrorReturned("InvalidTime")

\* C2: an init call with a valid time whose cfg bytes do not decode returns
\* Error InvalidMessage and no handle, and the user generator body is not
\* entered.
C2_InvalidMessage ==
    (Called /\ TimeValid /\ from_reader(request.cfg).tag = "Err") =>
        /\ body_calls = 0
        /\ body = None
        /\ ipc \in {"sim_gen", "returned"}
        /\ (ipc = "returned" => ErrorReturned("InvalidMessage"))

\* A call with a valid time and a truncated cfg has returned InvalidMessage
\* after the stored generator was invoked.
C2_Witness ==
    /\ ipc = "returned"
    /\ TimeValid
    /\ request.cfg = <<24>>
    /\ wrapper_calls = 1
    /\ ErrorReturned("InvalidMessage")

\* C3: when the user generator panics with a text payload m (a string
\* literal or an owned string), init returns normally with Error
\* InitializerPanic, a message that contains m, and no handle.
C3_PanicText ==
    (Called /\ BodyWas("panic")
        /\ body.val.payload.kind \in {"str", "String"}) =>
        /\ ErrorReturned("InitializerPanic")
        /\ Contains(reply.result.val.error.message, body.val.payload.text)

\* The generator panicked with the owned string "boom" and init returned.
C3_Witness ==
    /\ ipc = "returned"
    /\ BodyWas("panic")
    /\ body.val.payload = [kind |-> "String", text |-> <<"b", "o", "o", "m">>]
    /\ Contains(reply.result.val.error.message, <<"b", "o", "o", "m">>)

\* C4: when the user generator returns a domain error e, the reply is Error
\* with the code map_simulation_error gives e, and there is no handle.
C4_DomainError ==
    (Called /\ BodyWas("err")) =>
        ErrorReturned(map_simulation_error(body.val.e).code)

\* The generator returned the Timeout error and init returned its code.
C4_Witness ==
    /\ ipc = "returned"
    /\ BodyWas("err")
    /\ body.val.e = "Timeout"
    /\ reply.result.val.error.code = "SimulationTimeout"

\* init has returned the Empty reply and a handle.
EmptyReturned ==
    /\ ipc = "returned"
    /\ reply = InitReply(EmptyResult)
    /\ bench.tag = "Some"

\* C5 as stated: whenever the generator succeeds, init returns the Empty
\* reply and a present handle.
C5_Original ==
    (ipc = "returned" /\ BodyWas("ok")) => EmptyReturned

\* C5 as amended: when the generator succeeds, the registry's event sources
\* are registered with the blueprint's scheduler before sim_init.init runs;
\* and when sim_init.init succeeds as well, init returns the Empty reply and
\* a handle whose scheduler had those sources when the transition ran.
C5_Success ==
    /\ (Called /\ BodyWas("ok") /\ ipc = "transition") =>
            /\ reg_calls = 1
            /\ trans_calls = 0
            /\ registry.event_source_registry \subseteq
                   sim_init.scheduler_sources
    /\ (Called /\ trans_calls > 0) => reg_calls = 1
    /\ (ipc = "returned" /\ BodyWas("ok") /\ trans.val.tag = "Ok") =>
            /\ EmptyReturned
            /\ registry.event_source_registry \subseteq bench.val[1].sources
            /\ bench.val[2] = registry

\* The generator produced a registry with both event sources and init
\* returned Empty with a simulation that has them.
C5_Witness ==
    /\ EmptyReturned
    /\ BodyWas("ok")
    /\ registry.event_source_registry = Sources
    /\ bench.val[1].sources = Sources

C7_OnePerCall ==
    /\ opc = "idle" => Len(sent) = nops
    /\ opc # "idle" => Len(sent) + 1 = nops
    /\ last.op \in {"new", "get"} => (opc = "idle" /\ Len(sent) = last.before)
    /\ last.op = "new" => sent = <<>>

\* Three calls were made and a get after them: three values were sent.
C7_Witness ==
    /\ opc = "idle"
    /\ last.op = "get"
    /\ nops = 3
    /\ Len(sent) = 3

\* C8: the i-th value sent is observe of the state as it was right after
\* the mutation of the i-th call, in call order.
C8_InOrder ==
    /\ Len(posts) = nops
    /\ Len(sent) <= Len(posts)
    /\ \A i \in 1..Len(sent) : sent[i] = observe(obs_impl, posts[i])
    /\ \A i \in 1..Len(pending) :
            pending[i] = observe(obs_impl, posts[Len(sent) + i])

\* Three calls sent three different values, in call order.
C8_Witness ==
    /\ opc = "idle"
    /\ obs_impl = "clone"
    /\ sent = <<1, 2, 3>>
    /\ posts = <<1, 2, 3>>

\* C9: after set(v) has returned, get() returns v, and the call sent the
\* single value observe(v).
C9_Set ==
    (opc = "idle" /\ last.op = "set") =>
        /\ get_value(state) = last.arg.val
        /\ Len(sent) = last.before + 1
        /\ sent[Len(sent)] = observe(obs_impl, last.arg.val)

\* set(2) has returned on a container whose state was 3.
C9_Witness ==
    /\ opc = "idle"
    /\ last.op = "set"
    /\ last.arg.val = 2
    /\ last.prior = 3
    /\ state = 2
    /\ sent[Len(sent)] = observe(obs_impl, 2)

\* C10: after modify(f) has returned, the state is the prior state with f
\* applied once, the call returned f's return value, and it sent the single
\* value observe of the state after f.
C10_Modify ==
    (opc = "idle" /\ last.op = "modify") =>
        /\ get_value(state) = ApplyF(last.arg.val, last.prior).state
        /\ last.r = Some(ApplyF(last.arg.val, last.prior).r)
        /\ Len(sent) = last.before + 1
        /\ sent[Len(sent)] = observe(obs_impl, state)

\* modify(incr) has returned on a container whose state was 3: the state is
\* 4, the call returned 3 and sent 4.
C10_Witness ==
    /\ opc = "idle"
    /\ obs_impl = "clone"
    /\ last.op = "modify"
    /\ last.arg.val = "incr"
    /\ last.prior = 3
    /\ state = 4
    /\ last.r = Some(3)
    /\ sent[Len(sent)] = 4

\* C11: propagate leaves the state unchanged and sends observe of the
\* current state; it is not deduplicated: of consecutive propagate calls
\* each sends its snapshot, equal to the one sent before it.
C11_Propagate ==
    /\ (opc = "idle" /\ last.op = "propagate") =>
            /\ state = last.prior
            /\ Len(sent) = last.before + 1
            /\ sent[Len(sent)] = observe(obs_impl, state)
    /\ \A i \in 1..Len(sent) :
            ops[i] = "propagate" =>
                /\ posts[i] = (IF i = 1 THEN Default ELSE posts[i - 1])
                /\ i > 1 => sent[i] = sent[i - 1]
    /\ (opc = "idle" /\ \A i \in 1..Len(ops) : ops[i] = "propagate") =>
            /\ Len(sent) = Len(ops)
            /\ \A i \in 1..Len(sent) : sent[i] = observe(obs_impl, Default)

\* set(3), then two propagate calls: the value 3 was sent three times.
C11_Witness ==
    /\ opc = "idle"
    /\ obs_impl = "clone"
    /\ ops = <<"set", "propagate", "propagate">>
    /\ state = 3
    /\ sent = <<3, 3, 3>>

\* C12: right after new, get() returns the default value of the state type
\* and nothing has been sent; and no step ever binds the container to
\* another output than the one it was constructed with.
C12_New ==
    /\ [](nops = 0 =>
            /\ get_value(state) = Default
            /\ sent = <<>>
            /\ pending = <<>>
            /\ (last.op = "get" => last.r = Some(Default)))
    /\ [][out' = out]_vars

\* get() was called on a freshly constructed container bound to out_b.
C12_Witness ==
    /\ nops = 0
    /\ out = "out_b"
    /\ last.op = "get"
    /\ last.r = Some(Default)
    /\ sent = <<>>

\* C16: set, modify and propagate return only after the send of their
\* snapshot has completed: whenever no call is in flight, no send is pending
\* and the snapshot of every call made has been accepted by the output; a
\* call whose send is pending has not returned.
C16_ReturnAfterSend ==
    /\ opc = "idle" =>
            /\ pending = <<>>
            /\ Len(sent) = Len(ops)
    /\ pending # <<>> => opc = last.op /\ opc \in {"set", "modify", "propagate"}
    /\ (opc = "idle" /\ last.op \in {"set", "modify", "propagate"}) =>
            Len(sent) = last.before + 1

\* modify has returned after set and propagate: all three sends are done.
C16_Witness ==
    /\ opc = "idle"
    /\ ops = <<"set", "propagate", "modify">>
    /\ last.op = "modify"
    /\ pending = <<>>
    /\ Len(sent) = 3

\* C19: between calls, once a set, modify or propagate has completed, the
\* value sent last equals observe of the current state.
C19_LastSentCurrent ==
    (opc = "idle" /\ nops >= 1) =>
        /\ sent # <<>>
        /\ sent[Len(sent)] = observe(obs_impl, state)

\* After set(4), modify(reset), modify(incr) and a get, the value sent last
\* is the current state 1.
C19_Witness ==
    /\ opc = "idle"
    /\ obs_impl = "clone"
    /\ last.op = "get"
    /\ posts = <<4, 0, 1>>
    /\ state = 1
    /\ sent = <<4, 0, 1>>

\* C20: set and modify are not deduplicated: set(v) on a state equal to v,
\* and modify(f) with an f that leaves the state as it was, each send one
\* snapshot, equal to observe of the current state.
C20_NoDedup ==
    /\ (opc = "idle" /\ last.op = "set" /\ last.arg.val = last.prior) =>
            /\ state = last.prior
            /\ Len(sent) = last.before + 1
            /\ sent[Len(sent)] = observe(obs_impl, state)
    /\ (opc = "idle" /\ last.op = "modify"
            /\ ApplyF(last.arg.val, last.prior).state = last.prior) =>
            /\ state = last.prior
            /\ Len(sent) = last.before + 1
            /\ sent[Len(sent)] = observe(obs_impl, state)

\* set(2) twice, then modify(peek): the value 2 was sent three times.
C20_Witness ==
    /\ opc = "idle"
    /\ obs_impl = "clone"
    /\ ops = <<"set", "set", "modify">>
    /\ last.op = "modify"
    /\ last.arg.val = "peek"
    /\ posts = <<2, 2, 2>>
    /\ sent = <<2, 2, 2>>

\* ========================================================================
\* Further properties of InitService::init  (checked under SpecInit)
\* ========================================================================

\* The codes a reply can carry.
ReplyCodes ==
    {"InvalidTime", "InitializerPanic", "InvalidMessage"}
    \cup {ErrorCodeOf(e) : e \in SimulationErrors}

\* The configuration of the request decodes.
CfgDecodes == from_reader(request.cfg).tag = "Ok"

\* sim_init.init ran in this call and ended this way.
TransitionWas(tag) == trans.tag = "Some" /\ trans.val.tag = tag

\* C13: each init call produces exactly one reply, Empty or Error with one
\* code of the closed set and a message, and the (simulation, registry)
\* pair is present if and only if the reply is Empty.
C13_OneReply ==
    /\ ipc \in {"sim_gen", "register", "transition"} =>
            /\ reply = None
            /\ bench = None
            /\ Len(history) + 1 = ncalls
    /\ ipc = "returned" =>
            /\ Len(history) = ncalls
            /\ reply.result.tag = "Some"
            /\ reply.result.val.tag \in {"Empty", "Error"}
            /\ reply.result.val.tag = "Error" =>
                    /\ reply.result.val.error.code \in ReplyCodes
                    /\ Len(reply.result.val.error.message) > 0
            /\ bench.tag = "Some" <=> reply.result.val.tag = "Empty"

\* The second call failed in its first transition after the first call
\* succeeded: two replies, the last one an Error without a pair.
C13_Witness ==
    /\ ipc = "returned"
    /\ ncalls = 2
    /\ history = <<"none", "transition">>
    /\ reply.result.val.tag = "Error"
    /\ bench = None

\* C14: when the generator succeeds and sim_init.init fails, the reply is
\* Error InitializerPanic without a handle, and sim_init.init was called
\* with the start time converted from the request's time.
C14_TransitionFailed ==
    (Called /\ TransitionWas("Err")) =>
        /\ BodyWas("ok")
        /\ ErrorReturned("InitializerPanic")
        /\ reply.result.val.error.message =
               TransitionPrefix \o DisplayError(trans.val.err)
        /\ trans_arg = Some([secs |-> request.time.val.seconds,
                             subsec_nanos |-> request.time.val.nanos])

\* sim_init.init failed with Deadlock for a request at 7 s 999999999 ns.
C14_Witness ==
    /\ ipc = "returned"
    /\ TransitionWas("Err")
    /\ trans.val.err = "Deadlock"
    /\ request.time.val.nanos = 999999999
    /\ trans_arg.val.subsec_nanos = 999999999
    /\ ErrorReturned("InitializerPanic")

\* The code of the reply returned, or Empty.
ReplyCode ==
    IF reply.result.val.tag = "Empty" THEN "Empty"
    ELSE reply.result.val.error.code

\* The code the call's own request, generator behaviour and transition
\* outcome lead to, whatever the calls before it did.
ExpectedCode ==
    IF ~TimeValid THEN "InvalidTime"
    ELSE IF ~CfgDecodes THEN "InvalidMessage"
    ELSE IF BodyWas("panic") THEN "InitializerPanic"
    ELSE IF BodyWas("err") THEN ErrorCodeOf(body.val.e)
    ELSE IF TransitionWas("Err") THEN "InitializerPanic"
    ELSE "Empty"

\* The call before this one ended in an Error reply.
AfterFailure ==
    /\ Len(history) >= 2
    /\ history[Len(history) - 1] # "none"

\* C15 as stated: after a call that ended in an Error reply, a call with a
\* valid time, a decodable cfg and a generator that succeeds returns Empty
\* with a present handle.
C15_Original ==
    (ipc = "returned" /\ AfterFailure /\ TimeValid /\ CfgDecodes
        /\ BodyWas("ok")) => EmptyReturned

\* C15 as amended: after calls that ended in Error replies of any class, a
\* call with a valid time, a decodable cfg, a generator that succeeds and a
\* first transition that succeeds returns Empty with a present handle; the
\* outcome of every call is the one its own request, generator behaviour and
\* transition outcome lead to, and no failed step is run a second time.
C15_Usable ==
    ipc = "returned" =>
        /\ (TimeValid /\ CfgDecodes /\ BodyWas("ok")
                /\ ~TransitionWas("Err")) => EmptyReturned
        /\ ReplyCode = ExpectedCode
        /\ wrapper_calls <= 1
        /\ trans_calls <= 1
        /\ Len(history) = ncalls

\* A call succeeded right after a call in which the generator panicked.
C15_Witness ==
    /\ ipc = "returned"
    /\ history = <<"panic", "none">>
    /\ EmptyReturned

\* A call succeeded right after a call of each other failure class.
C15_WitnessClasses ==
    /\ ipc = "returned"
    /\ Len(history) = 2
    /\ history[1] \in {"time", "decode", "domain", "transition"}
    /\ EmptyReturned

\* C17: when the generator panics with a payload that is neither a string
\* literal nor an owned string, the reply is Error InitializerPanic with the
\* fixed message and nothing of the payload, and there is no handle.
C17_PanicOther ==
    (Called /\ BodyWas("panic") /\ body.val.payload.kind = "other") =>
        /\ ErrorReturned("InitializerPanic")
        /\ reply.result.val.error.message = PanicNoMsg

\* The generator panicked with a payload of another type that holds "boom".
C17_Witness ==
    /\ ipc = "returned"
    /\ BodyWas("panic")
    /\ body.val.payload = [kind |-> "other", text |-> <<"b", "o", "o", "m">>]
    /\ reply.result.val.error.message = PanicNoMsg

\* C18: in one init call the stored generator is invoked once when the time
\* validates and not at all otherwise; the user generator runs once when the
\* time validates and the cfg decodes and not at all otherwise; the
\* registration and sim_init.init run at most once, and only after the
\* generator returned Ok, the registration first.
C18_AtMostOnce ==
    Called =>
        /\ wrapper_calls =
               (IF TimeValid /\ ipc # "sim_gen" THEN 1 ELSE 0)
        /\ body_calls =
               (IF TimeValid /\ CfgDecodes /\ ipc # "sim_gen" THEN 1 ELSE 0)
        /\ reg_calls <= 1
        /\ trans_calls <= reg_calls
        /\ reg_calls > 0 => (result.tag = "Ok" /\ BodyWas("ok"))
        /\ reg_calls = (IF ipc \in {"transition", "returned"}
                           /\ result.tag = "Ok" THEN 1 ELSE 0)
        /\ trans_calls = (IF ipc = "returned" /\ result.tag = "Ok"
                          THEN 1 ELSE 0)

\* A call ran the generator, the registration and the transition once each.
C18_Witness ==
    /\ ipc = "returned"
    /\ wrapper_calls = 1
    /\ body_calls = 1
    /\ reg_calls = 1
    /\ trans_calls = 1

\* A call with a valid time and a cfg that does not decode invoked the
\* stored generator once and the user generator not at all.
C18_WitnessDecode ==
    /\ ipc = "returned"
    /\ TimeValid
    /\ ~CfgDecodes
    /\ wrapper_calls = 1
    /\ body_calls = 0
    /\ reg_calls = 0

====
